---- MODULE Spec2Model ----
(***************************************************************************)
(* Model of wallet_risk_scoring.py: the Fetcher (fetch_wallet_data), the   *)
(* Feature Extractor (extract_features), the Normalizer and Scorer         *)
(* (normalize_*, compute_score) and the Batch Runner (main and the         *)
(* __main__ block).                                                        *)
(*                                                                         *)
(* Numbers.  Python floats are modelled in fixed point: a value in [0,1]   *)
(* is an integer number of 1/UNIT, with UNIT = 14 * 1000 so that           *)
(* (num_assets - 1) / 14 is exact.  numpy.log10 is computed digit by digit *)
(* to LogBits binary places.  round() is round-half-to-even on the exact   *)
(* value.  USD amounts are whole dollars.                                  *)
(***************************************************************************)
EXTENDS Integers, Sequences, FiniteSets, TLC

VARIABLES
    \* compute_score applied to one feature record
    sc_in, sc_out, sc_done,
    \* extract_features applied to one payload
    ex_in, ex_out, ex_done,
    \* fetch_wallet_data: its parameters, locals and result
    retries, attempt, fpc, requests, outcomes, sleeps, ret,
    \* main and the __main__ block
    pc, idx, results, failed_addresses, data, random_imported,
    lastDelay, gaps, interrupted, partial_save_attempted, caught_by, exit_code

scoreVars == <<sc_in, sc_out, sc_done>>
extractVars == <<ex_in, ex_out, ex_done>>
fetchVars == <<retries, attempt, fpc, requests, outcomes, sleeps, ret>>
mainVars == <<pc, idx, results, failed_addresses, data, random_imported,
              lastDelay, gaps, interrupted, partial_save_attempted, caught_by, exit_code>>
vars == <<scoreVars, extractVars, fetchVars, mainVars>>

----------------------------------------------------------------------------
(* Bounds of the model *)

MaxItems == 3
MaxRetries == 3
NumWallets == 3

----------------------------------------------------------------------------
(* Arithmetic helpers *)

Min(a, b) == IF a <= b THEN a ELSE b
Max(a, b) == IF a >= b THEN a ELSE b

RECURSIVE Pow(_, _)
Pow(b, e) == IF e = 0 THEN 1 ELSE b * Pow(b, e - 1)

UNIT == 14 * 1000
LogBits == 2 * 5
LogOne == Pow(2, LogBits)
MantScale == Pow(10, 3)

\* round(): Python rounds a tie to the even integer.  n / d with d > 0.
RoundHalfEven(n, d) ==
    LET q == n \div d
        r == n % d
    IN  IF 2 * r < d THEN q
        ELSE IF 2 * r > d THEN q + 1
        ELSE IF q % 2 = 0 THEN q ELSE q + 1

\* n / d in units of 1/UNIT, truncated; 0 <= n <= d, d > 0.  Done in two
\* steps so that the intermediate products stay small.
Ratio(n, d) ==
    LET a == n * 14
        q1 == a \div d
        r1 == a % d
    IN  q1 * 1000 + (r1 * 1000) \div d

RECURSIVE FloorLog10(_)
FloorLog10(v) == IF v < 10 THEN 0 ELSE 1 + FloorLog10(v \div 10)

RECURSIVE FracBits(_, _)
FracBits(m, n) ==
    IF n = 0 THEN 0
    ELSE LET sq == (m * m) \div MantScale
         IN  IF sq >= 10 * MantScale
             THEN Pow(2, n - 1) + FracBits(sq \div 10, n - 1)
             ELSE FracBits(sq, n - 1)

\* numpy.log10(v) for an integer v >= 1, in units of 1/LogOne.
log10(v) ==
    LET k == FloorLog10(v)
        m == IF k >= 3 THEN v \div Pow(10, k - 3) ELSE v * Pow(10, 3 - k)
    IN  k * LogOne + FracBits(m, LogBits)

----------------------------------------------------------------------------
(* Normalizer and Scorer *)

MIN_PORTFOLIO == 100
MAX_PORTFOLIO == 1000000

ZeroFeatures ==
    [total_usd |-> 0, num_assets |-> 0, largest_holding_usd |-> 0,
     portfolio_concentration |-> 0]

\* Faulty variant: the final min(max(normalized, 0), 1) is left out.
normalize_portfolio_size_noclamp(usd_value) ==
    IF usd_value <= 0 THEN 0
    ELSE LET log_value == log10(Max(usd_value, 1))
             log_min == log10(MIN_PORTFOLIO)
             log_max == log10(MAX_PORTFOLIO)
         IN  ((log_value - log_min) * UNIT) \div (log_max - log_min)

normalize_portfolio_size(usd_value) ==
    IF usd_value <= 0 THEN 0
    ELSE LET log_value == log10(Max(usd_value, 1))
             log_min == log10(MIN_PORTFOLIO)
             log_max == log10(MAX_PORTFOLIO)
             normalized == ((log_value - log_min) * UNIT) \div (log_max - log_min)
         IN  Min(Max(normalized, 0), UNIT)

normalize_diversification(num_assets) ==
    IF num_assets <= 1 THEN 0
    ELSE IF num_assets >= 15 THEN UNIT
    ELSE ((num_assets - 1) * UNIT) \div 14

\* concentration in units of 1/UNIT; 0.1 is UNIT \div 10.
normalize_concentration(concentration) ==
    IF concentration >= UNIT THEN 0
    ELSE IF 10 * concentration <= UNIT THEN UNIT
    ELSE UNIT - concentration

\* The weighted sum of lines 252-256, in units of 1/(100 * UNIT).
weighted_score(f) ==
    normalize_portfolio_size(f.total_usd) * 35
    + normalize_diversification(f.num_assets) * 35
    + normalize_concentration(f.portfolio_concentration) * 30

\* Faulty variant: the empty-portfolio override is left out.
compute_score_nooverride(f) ==
    LET final_score == RoundHalfEven((100 * UNIT - weighted_score(f)) * 10, UNIT)
    IN  Max(0, Min(1000, final_score))

compute_score(f) ==
    LET rounded == RoundHalfEven((100 * UNIT - weighted_score(f)) * 10, UNIT)
        final_score == IF f.total_usd = 0 THEN 800 ELSE rounded
    IN  Max(0, Min(1000, final_score))

----------------------------------------------------------------------------
(* Payloads: the JSON body of a balance response, as extract_features reads it *)

\* item["quote"]: absent, null, a number, a string float() parses, a string it
\* does not (ValueError), a list (TypeError).
QuoteValues == {-5, 0, 3, 50000}
Quotes ==
    [kind : {"num"}, val : QuoteValues]
    \cup {[kind |-> "numstr", val |-> 7]}
    \cup [kind : {"missing", "null", "badstr", "list"}, val : {0}]

NoQuote == [kind |-> "missing", val |-> 0]
\* An element of items that is no mapping (a number, a string, a character).
NotMapItem == [ismap |-> FALSE, quote |-> NoQuote]
Items == [ismap : {TRUE}, quote : Quotes] \cup {NotMapItem}

Q(n) == [ismap |-> TRUE, quote |-> [kind |-> "num", val |-> n]]

\* payload["data"]["items"]: absent, null, a falsy scalar (0, ""), a truthy
\* number, a non-empty string, a list.
ItemsList(l) == [kind |-> "list", list |-> l]
ItemsOther(k) == [kind |-> k, list |-> <<>>]
\* payload["data"]: absent, null, not a mapping, a mapping.
DataMap(items) == [kind |-> "map", items |-> items]
DataOther(k) == [kind |-> k, items |-> ItemsOther("missing")]
Payload(d) == [data |-> d]

SeqsUpTo(S, n) == UNION {[1..k -> S] : k \in 0..n}

Payloads ==
    {Payload(DataMap(ItemsList(l))) : l \in SeqsUpTo(Items, MaxItems)}
    \cup {Payload(DataMap(ItemsOther(k))) :
            k \in {"missing", "null", "falsy", "number", "string"}}
    \cup {Payload(DataOther(k)) : k \in {"missing", "null", "notmap"}}

----------------------------------------------------------------------------
(* Feature Extractor.  A call yields [raised, value]: raised is the class  *)
(* of the exception that leaves it, "none" when it returns value.          *)

Returned(v) == [raised |-> "none", value |-> v]
Raised(e) == [raised |-> e, value |-> ZeroFeatures]

\* data.get("data", {}).get("items", []), line 126
GetItems(payload) ==
    LET d == payload.data
    IN  IF d.kind = "missing" THEN Returned(ItemsList(<<>>))
        ELSE IF d.kind # "map" THEN Raised("AttributeError")
        ELSE IF d.items.kind = "missing" THEN Returned(ItemsList(<<>>))
        ELSE Returned(d.items)

\* `not items`, line 127
Falsy(items) ==
    \/ items.kind \in {"null", "falsy"}
    \/ items.kind = "list" /\ items.list = <<>>

\* What `for item in items` yields, line 132: a number is not iterable, a
\* string yields its characters.
Iterate(items) ==
    IF items.kind = "number" THEN Raised("TypeError")
    ELSE IF items.kind = "string" THEN [raised |-> "none", value |-> <<NotMapItem>>]
    ELSE [raised |-> "none", value |-> items.list]

\* Faulty variant: the test of line 145 is quote >= 0.
ItemBody_nonneg(f, item) ==
    IF ~item.ismap THEN Raised("AttributeError")
    ELSE IF item.quote.kind \in {"missing", "null"} THEN Returned(f)
    ELSE IF item.quote.kind \in {"badstr", "list"} THEN Returned(f)
    ELSE LET quote == item.quote.val
         IN  IF quote >= 0
             THEN Returned([f EXCEPT !.total_usd = @ + quote,
                                     !.num_assets = @ + 1,
                                     !.largest_holding_usd = Max(@, quote)])
             ELSE Returned(f)

\* The body of the inner try, lines 135-151, on the features so far.
ItemBody(f, item) ==
    IF ~item.ismap THEN Raised("AttributeError")
    ELSE IF item.quote.kind \in {"missing", "null"} THEN Returned(f)
    ELSE IF item.quote.kind \in {"badstr", "list"} THEN Returned(f)
    ELSE LET quote == item.quote.val
         IN  IF quote > 0
             THEN Returned([f EXCEPT !.total_usd = @ + quote,
                                     !.num_assets = @ + 1,
                                     !.largest_holding_usd = Max(@, quote)])
             ELSE Returned(f)

\* Faulty variant: the handler's message names no item field, so it cannot raise.
ItemHandler_quiet(item) == "none"

\* The inner handler, lines 152-154: its message calls item.get again.
ItemHandler(item) == IF item.ismap THEN "none" ELSE "AttributeError"

\* The loop of lines 132-154.
RECURSIVE ItemLoop(_, _)
ItemLoop(f, items) ==
    IF items = <<>> THEN Returned(f)
    ELSE LET r == ItemBody(f, Head(items))
         IN  IF r.raised = "none" THEN ItemLoop(r.value, Tail(items))
             ELSE IF ItemHandler(Head(items)) = "none" THEN ItemLoop(f, Tail(items))
             ELSE Raised(ItemHandler(Head(items)))

\* Lines 157-158.
Concentrate(f) ==
    IF f.total_usd > 0
    THEN [f EXCEPT !.portfolio_concentration = Ratio(f.largest_holding_usd, f.total_usd)]
    ELSE f

\* The outer try body, lines 117-160.
ExtractBody(payload) ==
    LET got == GetItems(payload)
    IN  IF got.raised # "none" THEN Raised(got.raised)
        ELSE IF Falsy(got.value) THEN Returned(ZeroFeatures)
        ELSE LET it == Iterate(got.value)
             IN  IF it.raised # "none" THEN Raised(it.raised)
                 ELSE LET r == ItemLoop(ZeroFeatures, it.value)
                      IN  IF r.raised # "none" THEN Raised(r.raised)
                          ELSE Returned(Concentrate(r.value))

extract_features(payload) ==
    LET r == ExtractBody(payload)
    IN  IF r.raised = "none" THEN r ELSE Returned(ZeroFeatures)

----------------------------------------------------------------------------
(* Fetcher: one attempt's outcome, as the environment decides it *)

\* Bodies a balance response can carry under its `data` key.
FetchBodies ==
    { Payload(DataMap(ItemsList(<<>>))),
      Payload(DataMap(ItemsList(<<Q(50000), Q(3)>>))),
      Payload(DataMap(ItemsList(<<Q(50000), NotMapItem>>))),
      Payload(DataOther("null")) }

NoBody == Payload(DataOther("missing"))

\* exc: what requests.get raises; status: the HTTP status; json: what
\* response.json() gives (it raises on "invalid"); keys: the keys of a JSON
\* object; body: the object, as extract_features reads it.
Response(exc, status, json, keys, body) ==
    [exc |-> exc, status |-> status, json |-> json, keys |-> keys, body |-> body]

Outcomes ==
    { Response("Timeout", 0, "none", {}, NoBody),
      Response("ConnectionError", 0, "none", {}, NoBody),
      Response("none", 429, "object", {"data"}, NoBody),
      Response("none", 500, "object", {"data"}, NoBody),
      Response("none", 200, "invalid", {}, NoBody),
      Response("none", 200, "null", {}, NoBody),
      Response("none", 200, "object", {}, NoBody),
      Response("none", 200, "object", {"errors"}, NoBody),
      Response("none", 200, "object", {"errors", "data"}, NoBody),
      Response("none", 200, "object", {"other"}, NoBody) }
    \cup { Response("none", 200, "object", {"data"}, b) : b \in FetchBodies }

\* The exception classes of requests and the builtins that occur, with their
\* base classes.
Bases(exc) ==
    IF exc \in {"Timeout", "ConnectionError", "HTTPError"}
    THEN {exc, "RequestException", "Exception"}
    ELSE {exc, "Exception"}

\* Faulty variant: the catch-all `except Exception` clause is missing.
Handlers_nocatchall == {"Timeout", "RequestException"}

\* The except clauses of lines 95-100.
Handlers == {"Timeout", "RequestException", "Exception"}

Caught(exc) == Bases(exc) \cap Handlers # {}

\* Lines 78-81.
RateLimited(att) ==
    [flow |-> "continue", exc |-> "none", slept |-> <<10 * (att + 1)>>]

Flow(f) == [flow |-> f, exc |-> "none", slept |-> <<>>]
Throw(e) == [flow |-> "raise", exc |-> e, slept |-> <<>>]

\* The try body of lines 69-93 on one response.
TryBody(o, att) ==
    IF o.exc # "none" THEN Throw(o.exc)
    ELSE IF o.status = 429 THEN RateLimited(att)
    ELSE IF o.status >= 400 THEN Throw("HTTPError")
    ELSE IF o.json = "invalid" THEN Throw("ValueError")
    ELSE IF o.json = "null" THEN Throw("AttributeError")
    ELSE IF o.keys = {} \/ "errors" \in o.keys THEN Flow("continue")
    ELSE IF "data" \in o.keys THEN Flow("return")
    ELSE Flow("fall")

\* Lines 103-106: the seconds slept after attempt att, if any.
Backoff(att, n) ==
    IF att < n - 1 THEN <<Min(Pow(2, att), 30)>> ELSE <<>>

NoneRet == [none |-> TRUE, body |-> NoBody]
SomeRet(b) == [none |-> FALSE, body |-> b]

Slept(att, kind, secs) == [attempt |-> att, kind |-> kind, secs |-> secs]

\* One iteration of the loop of line 67, lines 68-106.
FetchAttempt ==
    /\ fpc = "loop"
    /\ attempt < retries
    /\ \E o \in Outcomes :
        LET r == TryBody(o, attempt)
            toBackoff == r.flow = "fall" \/ (r.flow = "raise" /\ Caught(r.exc))
            rate == [i \in 1..Len(r.slept) |-> Slept(attempt, "rate_limit", r.slept[i])]
            back == [i \in 1..Len(Backoff(attempt, retries)) |->
                        Slept(attempt, "backoff", Backoff(attempt, retries)[i])]
        IN  /\ requests' = requests + 1
            /\ outcomes' = Append(outcomes, o)
            /\ IF r.flow = "return"
               THEN /\ ret' = SomeRet(o.body)
                    /\ fpc' = "returned"
                    /\ UNCHANGED <<attempt, sleeps>>
               ELSE IF r.flow = "raise" /\ ~Caught(r.exc)
               THEN /\ fpc' = "raised"
                    /\ UNCHANGED <<attempt, sleeps, ret>>
               ELSE /\ attempt' = attempt + 1
                    /\ sleeps' = sleeps \o rate \o (IF toBackoff THEN back ELSE <<>>)
                    /\ UNCHANGED <<fpc, ret>>
    /\ UNCHANGED retries

\* Lines 108-109: the loop is over.
FetchExhausted ==
    /\ fpc = "loop"
    /\ attempt >= retries
    /\ ret' = NoneRet
    /\ fpc' = "returned"
    /\ UNCHANGED <<retries, attempt, requests, outcomes, sleeps>>

----------------------------------------------------------------------------
(* Idle values of each component's variables *)

ScoreIdle == sc_in = ZeroFeatures /\ sc_out = 0 /\ sc_done = FALSE
ExtractIdle == ex_in = Payload(DataOther("missing")) /\ ex_out = Returned(ZeroFeatures)
               /\ ex_done = FALSE
FetchIdle == retries = 0 /\ attempt = 0 /\ fpc = "idle" /\ requests = 0
             /\ outcomes = <<>> /\ sleeps = <<>> /\ ret = NoneRet
MainIdle == pc = "idle" /\ idx = 0 /\ results = <<>> /\ failed_addresses = <<>>
            /\ data = NoneRet /\ random_imported = TRUE
            /\ lastDelay = FALSE /\ gaps = <<>> /\ interrupted = FALSE
            /\ partial_save_attempted = FALSE /\ caught_by = "none" /\ exit_code = 0

----------------------------------------------------------------------------
(* compute_score on one feature record *)

UsdValues == {0, 1, 50, 100, 101, 1000, 31623, 999999, 1000000, 1000000000}
AssetCounts == {0, 1, 2, 8, 14, 15, 16, 1000000000}
Concentrations == {0, 1, UNIT \div 10, UNIT \div 10 + 1, UNIT \div 2, UNIT - 1, UNIT}

FeatureInputs ==
    [total_usd : UsdValues, num_assets : AssetCounts,
     largest_holding_usd : {0}, portfolio_concentration : Concentrations]

\* The records extract_features hands to compute_score, lines 300-301.
ExtractedFeatures == {extract_features(p).value : p \in FetchBodies}

InitScore ==
    /\ sc_in \in FeatureInputs \cup ExtractedFeatures /\ sc_out = 0 /\ sc_done = FALSE
    /\ ExtractIdle /\ FetchIdle /\ MainIdle

Score ==
    /\ ~sc_done
    /\ sc_out' = compute_score(sc_in)
    /\ sc_done' = TRUE
    /\ UNCHANGED <<sc_in, extractVars, fetchVars, mainVars>>

NextScore == Score

SpecScore == InitScore /\ [][NextScore]_vars

----------------------------------------------------------------------------
(* extract_features on one payload *)

InitExtract ==
    /\ ex_in \in Payloads /\ ex_out = Returned(ZeroFeatures) /\ ex_done = FALSE
    /\ ScoreIdle /\ FetchIdle /\ MainIdle

Extract ==
    /\ ~ex_done
    /\ ex_out' = extract_features(ex_in)
    /\ ex_done' = TRUE
    /\ UNCHANGED <<ex_in, scoreVars, fetchVars, mainVars>>

NextExtract == Extract

SpecExtract == InitExtract /\ [][NextExtract]_vars

----------------------------------------------------------------------------
(* fetch_wallet_data on its own, for every number of attempts *)

InitFetch ==
    /\ retries \in 0..MaxRetries
    /\ attempt = 0 /\ fpc = "loop" /\ requests = 0
    /\ outcomes = <<>> /\ sleeps = <<>> /\ ret = NoneRet
    /\ ScoreIdle /\ ExtractIdle /\ MainIdle

NextFetch ==
    \/ FetchAttempt /\ UNCHANGED <<scoreVars, extractVars, mainVars>>
    \/ FetchExhausted /\ UNCHANGED <<scoreVars, extractVars, mainVars>>

\* Every request carries timeout=15 and every sleep is finite: a call that
\* can take a step takes it.
SpecFetch == InitFetch /\ [][NextFetch]_vars /\ WF_vars(NextFetch)

----------------------------------------------------------------------------
(* Batch Runner: main() and the __main__ block *)

\* fetch_wallet_data's default for retries, line 60.
DefaultRetries == 3

\* The deduplicated address list of line 48.
wallet_addresses == [i \in 1..NumWallets |-> i]

WalletResult(addr, score) == [wallet_id |-> addr, score |-> score]
FailureRecord(addr, reason) == [wallet_id |-> addr, reason |-> reason]

\* Entered through the __main__ block, line 361 has bound `random`; a caller
\* that imports the module and calls main() has not.
Init ==
    /\ pc = "start" /\ idx = 0 /\ results = <<>> /\ failed_addresses = <<>>
    /\ data = NoneRet /\ random_imported \in BOOLEAN
    /\ lastDelay = FALSE /\ gaps = <<>> /\ interrupted = FALSE
    /\ partial_save_attempted = FALSE /\ caught_by = "none" /\ exit_code = 0
    /\ ScoreIdle /\ ExtractIdle /\ FetchIdle

runVars == <<random_imported, gaps, interrupted>>

\* Lines 348-357, then 366-368: an Exception that leaves the outer try.
Fatal ==
    /\ partial_save_attempted' = (results # <<>>)
    /\ caught_by' = "main"
    /\ exit_code' = 1
    /\ pc' = "exited"

\* Lines 312-316 (and 295-297, which do the same with their own reason).
WalletFailed(reason) ==
    /\ failed_addresses' =
           Append(failed_addresses, FailureRecord(wallet_addresses[idx + 1], reason))
    /\ results' = Append(results, WalletResult(wallet_addresses[idx + 1], 0))
    /\ idx' = idx + 1
    /\ lastDelay' = FALSE
    /\ pc' = "loop"

\* Lines 279-283: the backup of an existing output file; os.rename may fail.
Backup ==
    /\ pc = "start"
    /\ \/ pc' = "loop" /\ UNCHANGED <<partial_save_attempted, caught_by, exit_code>>
       \/ Fatal
    /\ UNCHANGED <<idx, results, failed_addresses, data, lastDelay, runVars>>
    /\ UNCHANGED <<scoreVars, extractVars, fetchVars>>

\* Lines 287-293: the next address; the progress bar's write may fail; then
\* fetch_wallet_data is entered.
NextWallet ==
    /\ pc = "loop"
    /\ idx < Len(wallet_addresses)
    /\ \/ /\ pc' = "fetch"
          /\ retries' = DefaultRetries /\ attempt' = 0 /\ fpc' = "loop"
          /\ requests' = 0 /\ outcomes' = <<>> /\ sleeps' = <<>> /\ ret' = NoneRet
          /\ UNCHANGED <<idx, results, failed_addresses, lastDelay>>
       \/ /\ WalletFailed("display error")
          /\ UNCHANGED fetchVars
    /\ UNCHANGED <<data, runVars, partial_save_attempted, caught_by, exit_code>>
    /\ UNCHANGED <<scoreVars, extractVars>>

\* An iteration of the Fetcher's loop inside main; gaps notes, at the first
\* request for an address, whether a politeness delay followed the address
\* before it.
MainFetchAttempt ==
    /\ pc = "fetch"
    /\ FetchAttempt
    /\ gaps' = IF requests = 0 /\ idx >= 1
               THEN Append(gaps, [earlier |-> wallet_addresses[idx],
                                  later |-> wallet_addresses[idx + 1],
                                  delayed |-> lastDelay])
               ELSE gaps
    /\ UNCHANGED <<pc, idx, results, failed_addresses, data, random_imported,
                   lastDelay, interrupted, partial_save_attempted, caught_by, exit_code>>
    /\ UNCHANGED <<scoreVars, extractVars>>

MainFetchExhausted ==
    /\ pc = "fetch"
    /\ FetchExhausted
    /\ UNCHANGED <<mainVars, scoreVars, extractVars>>

\* Faulty variant: a failed fetch is followed by the politeness delay too.
AfterFailedFetch_delay ==
    /\ failed_addresses' =
           Append(failed_addresses,
                  FailureRecord(wallet_addresses[idx + 1], "Failed to fetch data"))
    /\ results' = Append(results, WalletResult(wallet_addresses[idx + 1], 0))
    /\ idx' = idx + 1
    /\ lastDelay' = TRUE
    /\ pc' = "loop"

\* Lines 294-297.
AfterFailedFetch == WalletFailed("Failed to fetch data")

\* Lines 293-307: fetch_wallet_data has returned.
Process ==
    /\ pc = "fetch"
    /\ fpc = "returned"
    /\ data' = ret
    /\ IF ret.none
       THEN AfterFailedFetch
       ELSE LET features == extract_features(ret.body).value
                score == compute_score(features)
            IN  /\ results' = Append(results, WalletResult(wallet_addresses[idx + 1], score))
                /\ pc' = "delay"
                /\ UNCHANGED <<idx, failed_addresses, lastDelay>>
    /\ retries' = 0 /\ attempt' = 0 /\ fpc' = "idle" /\ requests' = 0
    /\ outcomes' = <<>> /\ sleeps' = <<>> /\ ret' = NoneRet
    /\ UNCHANGED <<runVars, partial_save_attempted, caught_by, exit_code>>
    /\ UNCHANGED <<scoreVars, extractVars>>

\* Line 310: time.sleep(0.2 + random.random() * 0.3); with `random` unbound
\* it raises NameError, which line 312 catches.
PolitenessDelay ==
    /\ pc = "delay"
    /\ IF random_imported
       THEN /\ lastDelay' = TRUE
            /\ idx' = idx + 1
            /\ pc' = "loop"
            /\ UNCHANGED <<results, failed_addresses>>
       ELSE WalletFailed("name 'random' is not defined")
    /\ UNCHANGED <<data, runVars, partial_save_attempted, caught_by, exit_code>>
    /\ UNCHANGED <<scoreVars, extractVars, fetchVars>>

\* Lines 319-346: the loop is over; writing either CSV may fail.
Save ==
    /\ pc = "loop"
    /\ idx = Len(wallet_addresses)
    /\ \/ pc' = "done" /\ UNCHANGED <<partial_save_attempted, caught_by, exit_code>>
       \/ Fatal
    /\ UNCHANGED <<idx, results, failed_addresses, data, lastDelay, runVars>>
    /\ UNCHANGED <<scoreVars, extractVars, fetchVars>>

InLoop == pc \in {"fetch", "delay"} \/ (pc = "loop" /\ idx < Len(wallet_addresses))

\* KeyboardInterrupt inside the loop of line 287: it is no Exception, so the
\* clauses of lines 312 and 348 let it pass, and line 363 catches it.
Interrupt ==
    /\ InLoop
    /\ interrupted' = TRUE
    /\ caught_by' = "__main__"
    /\ exit_code' = 1
    /\ pc' = "exited"
    /\ UNCHANGED <<idx, results, failed_addresses, data, random_imported, lastDelay,
                   gaps, partial_save_attempted>>
    /\ UNCHANGED <<scoreVars, extractVars, fetchVars>>

Next ==
    \/ Backup
    \/ NextWallet
    \/ MainFetchAttempt
    \/ MainFetchExhausted
    \/ Process
    \/ PolitenessDelay
    \/ Save
    \/ Interrupt

Spec == Init /\ [][Next]_vars

----------------------------------------------------------------------------
(* Scorer properties, under SpecScore *)

InUnit(x) == 0 <= x /\ x <= UNIT

\* C5: for every valid feature record the three sub-scores lie in [0,1], so
\* does their weighted sum, and the score is an integer in [0, 1000].
C5_ScoreBounded ==
    sc_done =>
        /\ InUnit(normalize_portfolio_size(sc_in.total_usd))
        /\ InUnit(normalize_diversification(sc_in.num_assets))
        /\ InUnit(normalize_concentration(sc_in.portfolio_concentration))
        /\ 0 <= weighted_score(sc_in) /\ weighted_score(sc_in) <= 100 * UNIT
        /\ sc_out \in 0..1000

C5_Witness ==
    /\ sc_done
    /\ sc_in.num_assets = 1000000000 /\ sc_in.total_usd = 1000000000
    /\ sc_in.portfolio_concentration = 0
    /\ sc_out = 0

\* C6: a record with total_usd = 0 is scored 800 whatever its other fields,
\* and so is the record extracted from a payload with no balance items.
C6_EmptyPortfolio800 ==
    sc_done =>
        /\ sc_in.total_usd = 0 => sc_out = 800
        /\ sc_in = extract_features(Payload(DataMap(ItemsList(<<>>)))).value => sc_out = 800

C6_Witness ==
    /\ sc_done
    /\ sc_in.total_usd = 0 /\ sc_in.num_assets = 16
    /\ sc_in.portfolio_concentration = UNIT
    /\ sc_out = 800

----------------------------------------------------------------------------
(* Feature Extractor properties, under SpecExtract *)

HasList(p) == p.data.kind = "map" /\ p.data.items.kind = "list"
ListOf(p) == p.data.items.list

\* No items to read: the list is absent or empty.
EmptyOrMissing(p) ==
    \/ p.data.kind = "missing"
    \/ p.data.kind = "map" /\ p.data.items.kind = "missing"
    \/ HasList(p) /\ ListOf(p) = <<>>

\* The payload does not have the shape {data: {items: [mapping, ...]}}.
StructuralError(p) ==
    \/ p.data.kind \in {"null", "notmap"}
    \/ p.data.kind = "map" /\ p.data.items.kind \in {"null", "falsy", "number", "string"}
    \/ HasList(p) /\ \E i \in DOMAIN ListOf(p) : ~ListOf(p)[i].ismap

\* C7: extract_features never raises, and a payload with an empty or missing
\* item list or with a structural error yields the all-zero record.
C7_ExtractNeverRaises ==
    ex_done =>
        /\ ex_out.raised = "none"
        /\ (EmptyOrMissing(ex_in) \/ StructuralError(ex_in)) => ex_out.value = ZeroFeatures

C7_Witness ==
    /\ ex_done
    /\ HasList(ex_in) /\ ListOf(ex_in) = <<Q(50000), NotMapItem>>
    /\ ex_out = Returned(ZeroFeatures)

WellFormed(p) == HasList(p) /\ \A i \in DOMAIN ListOf(p) : ListOf(p)[i].ismap

\* The quote is present, numeric and > 0.
Counted(item) == item.quote.kind \in {"num", "numstr"} /\ item.quote.val > 0

RECURSIVE SumQuotes(_)
SumQuotes(l) ==
    IF l = <<>> THEN 0
    ELSE (IF Counted(Head(l)) THEN Head(l).quote.val ELSE 0) + SumQuotes(Tail(l))

RECURSIVE MaxQuote(_)
MaxQuote(l) ==
    IF l = <<>> THEN 0
    ELSE Max(IF Counted(Head(l)) THEN Head(l).quote.val ELSE 0, MaxQuote(Tail(l)))

\* C8: on well-formed items the four fields are the count, the sum, the
\* maximum and the ratio of the quotes that are numeric and > 0, the other
\* items change nothing; every record returned has largest <= total and a
\* concentration in [0, 1].
C8_FeaturesComputed ==
    ex_done =>
        LET v == ex_out.value
        IN  /\ v.largest_holding_usd <= v.total_usd
            /\ InUnit(v.portfolio_concentration)
            /\ WellFormed(ex_in) =>
                LET l == ListOf(ex_in)
                    kept == SelectSeq(l, Counted)
                IN  /\ v.num_assets = Len(kept)
                    /\ v.total_usd = SumQuotes(l)
                    /\ v.largest_holding_usd = MaxQuote(l)
                    /\ v.portfolio_concentration =
                           (IF v.total_usd > 0
                            THEN Ratio(v.largest_holding_usd, v.total_usd) ELSE 0)
                    /\ ex_out = extract_features(Payload(DataMap(ItemsList(kept))))

C8_Witness ==
    /\ ex_done
    /\ HasList(ex_in) /\ ListOf(ex_in) = <<Q(50000), Q(-5), Q(3)>>
    /\ ex_out.value.num_assets = 2 /\ ex_out.value.total_usd = 50003
    /\ ex_out.value.largest_holding_usd = 50000
    /\ ex_out.value.portfolio_concentration = 13999

----------------------------------------------------------------------------
(* Fetcher properties, under SpecFetch *)

\* A response with a `data` key and no `errors` key.
Usable(o) ==
    /\ o.exc = "none" /\ o.status = 200 /\ o.json = "object"
    /\ "data" \in o.keys /\ "errors" \notin o.keys

C3_Inv ==
    /\ fpc # "raised"
    /\ requests = Len(outcomes) /\ requests <= retries
    /\ fpc = "loop" => attempt = requests
    /\ \A i \in DOMAIN outcomes :
          Usable(outcomes[i]) =>
              /\ i = Len(outcomes)
              /\ fpc = "returned"
              /\ ret = SomeRet(outcomes[i].body)
    /\ fpc = "returned" =>
          (ret.none <=> /\ requests = retries
                        /\ \A i \in DOMAIN outcomes : ~Usable(outcomes[i]))

\* C3: fetch_wallet_data never raises and returns; it issues at most retries
\* requests, each outcome (HTTP 429 too) using up one attempt; it returns the
\* body of the first usable response and asks no more; it returns None
\* exactly when all retries attempts ended without a usable response.
C3_FetchTerminates == [](C3_Inv) /\ <>(fpc = "returned")

C3_Witness ==
    /\ fpc = "returned" /\ ~ret.none
    /\ retries = 3 /\ requests = 3
    /\ outcomes[1].status = 429 /\ outcomes[2].exc = "Timeout"

\* A failed attempt that is not a rate limit.
RetryableFailure(o) == ~Usable(o) /\ ~(o.exc = "none" /\ o.status = 429)

BackoffSleeps(att) == {i \in DOMAIN sleeps : sleeps[i].attempt = att /\ sleeps[i].kind = "backoff"}

\* C4: after every failed attempt i that is not a rate limit and not the
\* last, min(2^i, 30) seconds are slept before the next request; after the
\* last attempt there is no backoff sleep.
C4_BackoffAfterEveryFailure ==
    \A i \in DOMAIN outcomes :
        LET att == i - 1
        IN  RetryableFailure(outcomes[i]) =>
                IF att < retries - 1
                THEN \E k \in BackoffSleeps(att) : sleeps[k].secs = Min(Pow(2, att), 30)
                ELSE BackoffSleeps(att) = {}

----------------------------------------------------------------------------
(* Batch Runner properties, under Spec *)

ResultsOf(a) == {i \in DOMAIN results : results[i].wallet_id = a}
FailuresOf(a) == {i \in DOMAIN failed_addresses : failed_addresses[i].wallet_id = a}

\* C1: between two addresses and after the last one, results holds exactly
\* one WalletResult for each address processed so far; at the end its length
\* is the number of input addresses.
C1_OneResultPerAddress ==
    pc \in {"loop", "done"} =>
        /\ Len(results) = idx
        /\ \A a \in 1..idx : Cardinality(ResultsOf(wallet_addresses[a])) = 1
        /\ pc = "done" => Len(results) = Len(wallet_addresses)

\* C2: an address with a FailureRecord carries the reason of its failure and
\* its WalletResult has score 0; the loop goes on to the next address.
C2_FailedWalletScoresZero ==
    \A i \in DOMAIN failed_addresses :
        LET a == failed_addresses[i].wallet_id
        IN  /\ failed_addresses[i].reason \in
                   {"Failed to fetch data", "display error", "name 'random' is not defined"}
            /\ ResultsOf(a) # {}
            /\ \A j \in ResultsOf(a) : results[j].score = 0

\* C9: an interrupt that arrives in the loop with at least one WalletResult
\* held is caught by the __main__ block and a save of the partial results is
\* attempted before the exit.
C9_InterruptSavesPartial ==
    (pc = "exited" /\ interrupted /\ results # <<>>) =>
        (caught_by = "__main__" /\ partial_save_attempted)

\* C10 as stated: a politeness delay lies between every two consecutive
\* addresses, whether the earlier one succeeded or failed.
C10_DelayBetweenAll ==
    \A i \in DOMAIN gaps : gaps[i].delayed

\* C10 as amended: a politeness delay lies between two consecutive addresses
\* exactly when the earlier one was processed without a FailureRecord.
C10_DelayAfterSuccessOnly ==
    \A i \in DOMAIN gaps : gaps[i].delayed <=> FailuresOf(gaps[i].earlier) = {}

C10_Witness ==
    /\ Len(gaps) = 2
    /\ gaps[1].delayed /\ FailuresOf(gaps[1].earlier) = {}
    /\ ~gaps[2].delayed
    /\ \E i \in FailuresOf(gaps[2].earlier) : failed_addresses[i].reason = "Failed to fetch data"

====
